---- MODULE Spec2Model ----
(***************************************************************************)
(* ISO8583Parser (src/main.py): the bitmap decoder and the sequential      *)
(* field walker of ISO8583Parser.parse.                                    *)
(*                                                                         *)
(* A Python str is modelled as a sequence of one-character strings.  A     *)
(* Python int of arbitrary size is modelled as a sign and a magnitude in   *)
(* binary (most significant bit first, no leading zero), because a bitmap  *)
(* is a 64-bit value.                                                      *)
(***************************************************************************)
EXTENDS Integers, Sequences, FiniteSets, TLC

(***************************************************************************)
(* Program constants                                                       *)
(***************************************************************************)
IdLen == 3

HdrLen == 9

MtiLen == 4

BitmapLen == 16

BitmapBits == 64

SecondaryOffset == 64

HexBase == 16

(***************************************************************************)
(* Bounds of the model                                                     *)
(***************************************************************************)
MaxBody == 3

(***************************************************************************)
(* Python string primitives                                                *)
(***************************************************************************)
Min(a, b) == IF a <= b THEN a ELSE b

\* a slice that takes one character too many: s[lo:hi + 1]
PySliceInclusive(s, lo, hi) ==
    IF lo >= Len(s) \/ hi < lo THEN << >>
    ELSE SubSeq(s, lo + 1, Min(hi + 1, Len(s)))

\* s[lo:hi] for 0 <= lo <= hi: never raises, clamps to the end of s
PySlice(s, lo, hi) ==
    IF lo >= Len(s) \/ hi <= lo THEN << >> ELSE SubSeq(s, lo + 1, Min(hi, Len(s)))

\* s[lo:]
PySliceFrom(s, lo) == PySlice(s, lo, Len(s))

LowerHex == <<"0", "1", "2", "3", "4", "5", "6", "7", "8", "9",
              "a", "b", "c", "d", "e", "f">>

UpperHex == <<"0", "1", "2", "3", "4", "5", "6", "7", "8", "9",
              "A", "B", "C", "D", "E", "F">>

Range(s) == {s[i] : i \in 1..Len(s)}

\* the hexadecimal digits 0-9, a-f, A-F
IsHexDigit(c) == c \in Range(LowerHex) \cup Range(UpperHex)

AsciiDigits == {"0", "1", "2", "3", "4", "5", "6", "7", "8", "9"}

(***************************************************************************)
(* Character classes of CPython 3.11 (Unicode 14.0).  An ASCII character   *)
(* is the one-character string itself; a character above U+007F is named  *)
(* by its code point: "U+00B2" is SUPERSCRIPT TWO, "U+00A0" the no-break   *)
(* space, "U+0663" ARABIC-INDIC DIGIT THREE.                               *)
(***************************************************************************)
\* the characters int() strips at both ends: tab, line feed, vertical tab
\* (written raw), form feed, carriage return, space, and the Unicode spaces
Whitespace ==
    {"\t", "\n", "", "\f", "\r", " ", "U+0085", "U+00A0", "U+1680",
     "U+2000", "U+2001", "U+2002", "U+2003", "U+2004", "U+2005", "U+2006",
     "U+2007", "U+2008", "U+2009", "U+200A", "U+2028", "U+2029", "U+202F",
     "U+205F", "U+3000"}

\* the Unicode decimal digits (category Nd) by value, 0 to 9: int() reads
\* each as the ASCII digit of its value, in every base
DecimalDigits ==
    <<{"0", "U+0660", "U+06F0", "U+07C0", "U+0966", "U+09E6", "U+0A66",
        "U+0AE6", "U+0B66", "U+0BE6", "U+0C66", "U+0CE6", "U+0D66", "U+0DE6",
        "U+0E50", "U+0ED0", "U+0F20", "U+1040", "U+1090", "U+17E0", "U+1810",
        "U+1946", "U+19D0", "U+1A80", "U+1A90", "U+1B50", "U+1BB0", "U+1C40",
        "U+1C50", "U+A620", "U+A8D0", "U+A900", "U+A9D0", "U+A9F0", "U+AA50",
        "U+ABF0", "U+FF10", "U+104A0", "U+10D30", "U+11066", "U+110F0",
        "U+11136", "U+111D0", "U+112F0", "U+11450", "U+114D0", "U+11650",
        "U+116C0", "U+11730", "U+118E0", "U+11950", "U+11C50", "U+11D50",
        "U+11DA0", "U+16A60", "U+16AC0", "U+16B50", "U+1D7CE", "U+1D7D8",
        "U+1D7E2", "U+1D7EC", "U+1D7F6", "U+1E140", "U+1E2F0", "U+1E950",
        "U+1FBF0"},
       {"1", "U+0661", "U+06F1", "U+07C1", "U+0967", "U+09E7", "U+0A67",
        "U+0AE7", "U+0B67", "U+0BE7", "U+0C67", "U+0CE7", "U+0D67", "U+0DE7",
        "U+0E51", "U+0ED1", "U+0F21", "U+1041", "U+1091", "U+17E1", "U+1811",
        "U+1947", "U+19D1", "U+1A81", "U+1A91", "U+1B51", "U+1BB1", "U+1C41",
        "U+1C51", "U+A621", "U+A8D1", "U+A901", "U+A9D1", "U+A9F1", "U+AA51",
        "U+ABF1", "U+FF11", "U+104A1", "U+10D31", "U+11067", "U+110F1",
        "U+11137", "U+111D1", "U+112F1", "U+11451", "U+114D1", "U+11651",
        "U+116C1", "U+11731", "U+118E1", "U+11951", "U+11C51", "U+11D51",
        "U+11DA1", "U+16A61", "U+16AC1", "U+16B51", "U+1D7CF", "U+1D7D9",
        "U+1D7E3", "U+1D7ED", "U+1D7F7", "U+1E141", "U+1E2F1", "U+1E951",
        "U+1FBF1"},
       {"2", "U+0662", "U+06F2", "U+07C2", "U+0968", "U+09E8", "U+0A68",
        "U+0AE8", "U+0B68", "U+0BE8", "U+0C68", "U+0CE8", "U+0D68", "U+0DE8",
        "U+0E52", "U+0ED2", "U+0F22", "U+1042", "U+1092", "U+17E2", "U+1812",
        "U+1948", "U+19D2", "U+1A82", "U+1A92", "U+1B52", "U+1BB2", "U+1C42",
        "U+1C52", "U+A622", "U+A8D2", "U+A902", "U+A9D2", "U+A9F2", "U+AA52",
        "U+ABF2", "U+FF12", "U+104A2", "U+10D32", "U+11068", "U+110F2",
        "U+11138", "U+111D2", "U+112F2", "U+11452", "U+114D2", "U+11652",
        "U+116C2", "U+11732", "U+118E2", "U+11952", "U+11C52", "U+11D52",
        "U+11DA2", "U+16A62", "U+16AC2", "U+16B52", "U+1D7D0", "U+1D7DA",
        "U+1D7E4", "U+1D7EE", "U+1D7F8", "U+1E142", "U+1E2F2", "U+1E952",
        "U+1FBF2"},
       {"3", "U+0663", "U+06F3", "U+07C3", "U+0969", "U+09E9", "U+0A69",
        "U+0AE9", "U+0B69", "U+0BE9", "U+0C69", "U+0CE9", "U+0D69", "U+0DE9",
        "U+0E53", "U+0ED3", "U+0F23", "U+1043", "U+1093", "U+17E3", "U+1813",
        "U+1949", "U+19D3", "U+1A83", "U+1A93", "U+1B53", "U+1BB3", "U+1C43",
        "U+1C53", "U+A623", "U+A8D3", "U+A903", "U+A9D3", "U+A9F3", "U+AA53",
        "U+ABF3", "U+FF13", "U+104A3", "U+10D33", "U+11069", "U+110F3",
        "U+11139", "U+111D3", "U+112F3", "U+11453", "U+114D3", "U+11653",
        "U+116C3", "U+11733", "U+118E3", "U+11953", "U+11C53", "U+11D53",
        "U+11DA3", "U+16A63", "U+16AC3", "U+16B53", "U+1D7D1", "U+1D7DB",
        "U+1D7E5", "U+1D7EF", "U+1D7F9", "U+1E143", "U+1E2F3", "U+1E953",
        "U+1FBF3"},
       {"4", "U+0664", "U+06F4", "U+07C4", "U+096A", "U+09EA", "U+0A6A",
        "U+0AEA", "U+0B6A", "U+0BEA", "U+0C6A", "U+0CEA", "U+0D6A", "U+0DEA",
        "U+0E54", "U+0ED4", "U+0F24", "U+1044", "U+1094", "U+17E4", "U+1814",
        "U+194A", "U+19D4", "U+1A84", "U+1A94", "U+1B54", "U+1BB4", "U+1C44",
        "U+1C54", "U+A624", "U+A8D4", "U+A904", "U+A9D4", "U+A9F4", "U+AA54",
        "U+ABF4", "U+FF14", "U+104A4", "U+10D34", "U+1106A", "U+110F4",
        "U+1113A", "U+111D4", "U+112F4", "U+11454", "U+114D4", "U+11654",
        "U+116C4", "U+11734", "U+118E4", "U+11954", "U+11C54", "U+11D54",
        "U+11DA4", "U+16A64", "U+16AC4", "U+16B54", "U+1D7D2", "U+1D7DC",
        "U+1D7E6", "U+1D7F0", "U+1D7FA", "U+1E144", "U+1E2F4", "U+1E954",
        "U+1FBF4"},
       {"5", "U+0665", "U+06F5", "U+07C5", "U+096B", "U+09EB", "U+0A6B",
        "U+0AEB", "U+0B6B", "U+0BEB", "U+0C6B", "U+0CEB", "U+0D6B", "U+0DEB",
        "U+0E55", "U+0ED5", "U+0F25", "U+1045", "U+1095", "U+17E5", "U+1815",
        "U+194B", "U+19D5", "U+1A85", "U+1A95", "U+1B55", "U+1BB5", "U+1C45",
        "U+1C55", "U+A625", "U+A8D5", "U+A905", "U+A9D5", "U+A9F5", "U+AA55",
        "U+ABF5", "U+FF15", "U+104A5", "U+10D35", "U+1106B", "U+110F5",
        "U+1113B", "U+111D5", "U+112F5", "U+11455", "U+114D5", "U+11655",
        "U+116C5", "U+11735", "U+118E5", "U+11955", "U+11C55", "U+11D55",
        "U+11DA5", "U+16A65", "U+16AC5", "U+16B55", "U+1D7D3", "U+1D7DD",
        "U+1D7E7", "U+1D7F1", "U+1D7FB", "U+1E145", "U+1E2F5", "U+1E955",
        "U+1FBF5"},
       {"6", "U+0666", "U+06F6", "U+07C6", "U+096C", "U+09EC", "U+0A6C",
        "U+0AEC", "U+0B6C", "U+0BEC", "U+0C6C", "U+0CEC", "U+0D6C", "U+0DEC",
        "U+0E56", "U+0ED6", "U+0F26", "U+1046", "U+1096", "U+17E6", "U+1816",
        "U+194C", "U+19D6", "U+1A86", "U+1A96", "U+1B56", "U+1BB6", "U+1C46",
        "U+1C56", "U+A626", "U+A8D6", "U+A906", "U+A9D6", "U+A9F6", "U+AA56",
        "U+ABF6", "U+FF16", "U+104A6", "U+10D36", "U+1106C", "U+110F6",
        "U+1113C", "U+111D6", "U+112F6", "U+11456", "U+114D6", "U+11656",
        "U+116C6", "U+11736", "U+118E6", "U+11956", "U+11C56", "U+11D56",
        "U+11DA6", "U+16A66", "U+16AC6", "U+16B56", "U+1D7D4", "U+1D7DE",
        "U+1D7E8", "U+1D7F2", "U+1D7FC", "U+1E146", "U+1E2F6", "U+1E956",
        "U+1FBF6"},
       {"7", "U+0667", "U+06F7", "U+07C7", "U+096D", "U+09ED", "U+0A6D",
        "U+0AED", "U+0B6D", "U+0BED", "U+0C6D", "U+0CED", "U+0D6D", "U+0DED",
        "U+0E57", "U+0ED7", "U+0F27", "U+1047", "U+1097", "U+17E7", "U+1817",
        "U+194D", "U+19D7", "U+1A87", "U+1A97", "U+1B57", "U+1BB7", "U+1C47",
        "U+1C57", "U+A627", "U+A8D7", "U+A907", "U+A9D7", "U+A9F7", "U+AA57",
        "U+ABF7", "U+FF17", "U+104A7", "U+10D37", "U+1106D", "U+110F7",
        "U+1113D", "U+111D7", "U+112F7", "U+11457", "U+114D7", "U+11657",
        "U+116C7", "U+11737", "U+118E7", "U+11957", "U+11C57", "U+11D57",
        "U+11DA7", "U+16A67", "U+16AC7", "U+16B57", "U+1D7D5", "U+1D7DF",
        "U+1D7E9", "U+1D7F3", "U+1D7FD", "U+1E147", "U+1E2F7", "U+1E957",
        "U+1FBF7"},
       {"8", "U+0668", "U+06F8", "U+07C8", "U+096E", "U+09EE", "U+0A6E",
        "U+0AEE", "U+0B6E", "U+0BEE", "U+0C6E", "U+0CEE", "U+0D6E", "U+0DEE",
        "U+0E58", "U+0ED8", "U+0F28", "U+1048", "U+1098", "U+17E8", "U+1818",
        "U+194E", "U+19D8", "U+1A88", "U+1A98", "U+1B58", "U+1BB8", "U+1C48",
        "U+1C58", "U+A628", "U+A8D8", "U+A908", "U+A9D8", "U+A9F8", "U+AA58",
        "U+ABF8", "U+FF18", "U+104A8", "U+10D38", "U+1106E", "U+110F8",
        "U+1113E", "U+111D8", "U+112F8", "U+11458", "U+114D8", "U+11658",
        "U+116C8", "U+11738", "U+118E8", "U+11958", "U+11C58", "U+11D58",
        "U+11DA8", "U+16A68", "U+16AC8", "U+16B58", "U+1D7D6", "U+1D7E0",
        "U+1D7EA", "U+1D7F4", "U+1D7FE", "U+1E148", "U+1E2F8", "U+1E958",
        "U+1FBF8"},
       {"9", "U+0669", "U+06F9", "U+07C9", "U+096F", "U+09EF", "U+0A6F",
        "U+0AEF", "U+0B6F", "U+0BEF", "U+0C6F", "U+0CEF", "U+0D6F", "U+0DEF",
        "U+0E59", "U+0ED9", "U+0F29", "U+1049", "U+1099", "U+17E9", "U+1819",
        "U+194F", "U+19D9", "U+1A89", "U+1A99", "U+1B59", "U+1BB9", "U+1C49",
        "U+1C59", "U+A629", "U+A8D9", "U+A909", "U+A9D9", "U+A9F9", "U+AA59",
        "U+ABF9", "U+FF19", "U+104A9", "U+10D39", "U+1106F", "U+110F9",
        "U+1113F", "U+111D9", "U+112F9", "U+11459", "U+114D9", "U+11659",
        "U+116C9", "U+11739", "U+118E9", "U+11959", "U+11C59", "U+11D59",
        "U+11DA9", "U+16A69", "U+16AC9", "U+16B59", "U+1D7D7", "U+1D7E1",
        "U+1D7EB", "U+1D7F5", "U+1D7FF", "U+1E149", "U+1E2F9", "U+1E959",
        "U+1FBF9"}>>

\* the characters str.isdigit() accepts that are not decimal digits
\* (superscripts, circled digits, ...): int() rejects them
DigitOnly ==
    {"U+00B2", "U+00B3", "U+00B9", "U+1369", "U+136A", "U+136B", "U+136C",
     "U+136D", "U+136E", "U+136F", "U+1370", "U+1371", "U+19DA", "U+2070",
     "U+2074", "U+2075", "U+2076", "U+2077", "U+2078", "U+2079", "U+2080",
     "U+2081", "U+2082", "U+2083", "U+2084", "U+2085", "U+2086", "U+2087",
     "U+2088", "U+2089", "U+2460", "U+2461", "U+2462", "U+2463", "U+2464",
     "U+2465", "U+2466", "U+2467", "U+2468", "U+2474", "U+2475", "U+2476",
     "U+2477", "U+2478", "U+2479", "U+247A", "U+247B", "U+247C", "U+2488",
     "U+2489", "U+248A", "U+248B", "U+248C", "U+248D", "U+248E", "U+248F",
     "U+2490", "U+24EA", "U+24F5", "U+24F6", "U+24F7", "U+24F8", "U+24F9",
     "U+24FA", "U+24FB", "U+24FC", "U+24FD", "U+24FF", "U+2776", "U+2777",
     "U+2778", "U+2779", "U+277A", "U+277B", "U+277C", "U+277D", "U+277E",
     "U+2780", "U+2781", "U+2782", "U+2783", "U+2784", "U+2785", "U+2786",
     "U+2787", "U+2788", "U+278A", "U+278B", "U+278C", "U+278D", "U+278E",
     "U+278F", "U+2790", "U+2791", "U+2792", "U+10A40", "U+10A41", "U+10A42",
     "U+10A43", "U+10E60", "U+10E61", "U+10E62", "U+10E63", "U+10E64",
     "U+10E65", "U+10E66", "U+10E67", "U+10E68", "U+11052", "U+11053",
     "U+11054", "U+11055", "U+11056", "U+11057", "U+11058", "U+11059",
     "U+1105A", "U+1F100", "U+1F101", "U+1F102", "U+1F103", "U+1F104",
     "U+1F105", "U+1F106", "U+1F107", "U+1F108", "U+1F109", "U+1F10A"}

SuperscriptTwo == "U+00B2"

IsDecimalChar(c) == \E d \in 1..10 : c \in DecimalDigits[d]

DecimalDigitValue(c) == (CHOOSE d \in 1..10 : c \in DecimalDigits[d]) - 1

\* a digit of int(s, 16): a decimal digit or a letter a-f, A-F
IsIntDigit(c) == IsDecimalChar(c) \/ IsHexDigit(c)

\* the value 0..15 of a digit of int(s, 16)
HexDigitValue(c) ==
    IF c \in Range(LowerHex)
    THEN (CHOOSE i \in 1..16 : LowerHex[i] = c) - 1
    ELSE IF c \in Range(UpperHex)
    THEN (CHOOSE i \in 1..16 : UpperHex[i] = c) - 1
    ELSE DecimalDigitValue(c)

IsDigitChar(c) == IsDecimalChar(c) \/ c \in DigitOnly

\* str.isdigit(): non-empty and every character is a digit
isdigit(s) == Len(s) > 0 /\ \A i \in 1..Len(s) : IsDigitChar(s[i])

RECURSIVE LStrip(_)
LStrip(s) == IF Len(s) > 0 /\ s[1] \in Whitespace THEN LStrip(Tail(s)) ELSE s

RECURSIVE RStrip(_)
RStrip(s) ==
    IF Len(s) > 0 /\ s[Len(s)] \in Whitespace
    THEN RStrip(SubSeq(s, 1, Len(s) - 1)) ELSE s

RECURSIVE StripZeros(_)
StripZeros(bits) ==
    IF Len(bits) > 0 /\ bits[1] = "0" THEN StripZeros(Tail(bits)) ELSE bits

\* the four bits of a hexadecimal digit value, most significant first
Nibble(v) ==
    << IF (v \div 8) % 2 = 1 THEN "1" ELSE "0",
       IF (v \div 4) % 2 = 1 THEN "1" ELSE "0",
       IF (v \div 2) % 2 = 1 THEN "1" ELSE "0",
       IF v % 2 = 1 THEN "1" ELSE "0" >>

RECURSIVE DigitsToBits(_)
DigitsToBits(ds) ==
    IF ds = << >> THEN << >>
    ELSE IF ds[1] = "_" THEN DigitsToBits(Tail(ds))
    ELSE Nibble(HexDigitValue(ds[1])) \o DigitsToBits(Tail(ds))

\* the digit part of an integer literal: digits with single underscores
\* between them only
ValidDigits(ds) ==
    /\ Len(ds) > 0
    /\ \A i \in 1..Len(ds) : IsIntDigit(ds[i]) \/ ds[i] = "_"
    /\ ds[1] # "_"
    /\ ds[Len(ds)] # "_"
    /\ \A i \in 1..(Len(ds) - 1) : ~(ds[i] = "_" /\ ds[i + 1] = "_")

\* int(s, 16): surrounding whitespace, an optional sign, an optional 0x / 0X
\* prefix (with one optional underscore after it), then the digits.  Every
\* decimal digit is read as its ASCII digit before the prefix is looked for,
\* so the zero of the prefix is any decimal digit of value 0.
\* ok = FALSE stands for ValueError.
PyIntHex(s) ==
    LET t      == RStrip(LStrip(s))
        signed == Len(t) > 0 /\ t[1] \in {"+", "-"}
        u      == IF signed THEN Tail(t) ELSE t
        prefix == Len(u) >= 2 /\ u[1] \in DecimalDigits[1] /\ u[2] \in {"x", "X"}
        v      == IF prefix THEN PySliceFrom(u, 2) ELSE u
        ds     == IF prefix /\ Len(v) > 0 /\ v[1] = "_" THEN Tail(v) ELSE v
    IN  IF ValidDigits(ds)
        THEN LET mag == StripZeros(DigitsToBits(ds))
             IN  [ok |-> TRUE,
                  neg |-> signed /\ t[1] = "-" /\ mag # << >>,
                  mag |-> mag]
        ELSE [ok |-> FALSE, neg |-> FALSE, mag |-> << >>]

\* bin(n): "0b..." or "-0b..."
bin(n) ==
    (IF n.neg THEN <<"-">> ELSE << >>) \o <<"0", "b">>
        \o (IF n.mag = << >> THEN <<"0">> ELSE n.mag)

RECURSIVE Zeros(_)
Zeros(k) == IF k <= 0 THEN << >> ELSE <<"0">> \o Zeros(k - 1)

\* str.zfill(width): pads on the left, after a leading sign; never truncates
zfill(s, width) ==
    IF Len(s) >= width THEN s
    ELSE IF Len(s) > 0 /\ s[1] \in {"+", "-"}
         THEN <<s[1]>> \o Zeros(width - Len(s)) \o Tail(s)
         ELSE Zeros(width - Len(s)) \o s

\* int(s) on a string isdigit() accepted: the decimal value, or ValueError
\* (ok = FALSE) when a character is not a decimal digit
RECURSIVE DecimalValue(_, _)
DecimalValue(s, acc) ==
    IF s = << >> THEN acc
    ELSE DecimalValue(Tail(s), acc * 10 + DecimalDigitValue(s[1]))

PyIntDec(s) ==
    IF Len(s) > 0 /\ \A i \in 1..Len(s) : IsDecimalChar(s[i])
    THEN [ok |-> TRUE, val |-> DecimalValue(s, 0)]
    ELSE [ok |-> FALSE, val |-> 0]

(***************************************************************************)
(* BitmapDecoder                                                           *)
(***************************************************************************)
\* _hex_to_binary raises ValueError exactly when int(hex_string, 16) does
HexToBinaryRaises(hex_string) == ~PyIntHex(hex_string).ok

\* the conversion without the padding to 64 characters
hex_to_binary_unpadded(hex_string) == PySliceFrom(bin(PyIntHex(hex_string)), 2)

\* bin(int(hex_string, 16))[2:].zfill(64)
_hex_to_binary(hex_string) ==
    zfill(PySliceFrom(bin(PyIntHex(hex_string)), 2), BitmapBits)

RECURSIVE ScanBits(_, _)
ScanBits(binary_bitmap, index) ==
    IF index >= Len(binary_bitmap) THEN << >>
    ELSE (IF binary_bitmap[index + 1] = "1" THEN <<index + 1>> ELSE << >>)
             \o ScanBits(binary_bitmap, index + 1)

_get_active_fields(hex_bitmap) == ScanBits(_hex_to_binary(hex_bitmap), 0)

(***************************************************************************)
(* Inputs: the loaded configuration and the message                        *)
(***************************************************************************)
\* config is None (or an empty dict) when loading failed
NoConfig == << >>

ConfigA ==
    ("2" :> [type |-> "VARIABLE", length_digits |-> 3,
             description |-> "Primary Account Number"])
    @@ ("3" :> [length |-> 2, description |-> "Processing Code"])
    @@ ("4" :> [type |-> "VARIABLE", length_digits |-> 1,
                description |-> "Amount"])
    @@ ("6" :> [type |-> "LLLVAR", length_digits |-> 3,
                description |-> "Cardholder Billing"])
    @@ ("64" :> [type |-> "FIXED", length |-> 1, description |-> "MAC"])
    @@ ("65" :> [type |-> "FIXED", length |-> 1,
                 description |-> "Extended Bitmap Indicator"])
    @@ ("66" :> [type |-> "VARIABLE", length_digits |-> 1,
                 description |-> "Settlement Code"])
    @@ ("128" :> [type |-> "FIXED", length |-> 2, description |-> "MAC 2"])

Configs == <<NoConfig, ConfigA>>

\* "ISO" "025000070" "0100": the header of the sample message
Header == <<"I", "S", "O", "0", "2", "5", "0", "0", "0", "0", "7", "0",
            "0", "1", "0", "0">>

\* a 16-character bitmap: the given leading characters, then zeros
Bitmap(lead) == lead \o Zeros(BitmapLen - Len(lead))

\* ... and the same with a given last character
BitmapEnd(lead, last) == lead \o Zeros(BitmapLen - Len(lead) - 1) \o <<last>>

PlainPrimaries ==
    { Bitmap(<< >>), Bitmap(<<"4">>), Bitmap(<<"2">>), Bitmap(<<"1">>),
      Bitmap(<<"3">>), Bitmap(<<"7">>), Bitmap(<<"3", "8">>),
      Bitmap(<<"2", "4">>), BitmapEnd(<<"3">>, "1"),
      Bitmap(<<"0", "x">>), BitmapEnd(<<"-">>, "1"), BitmapEnd(<<"+">>, "1"),
      BitmapEnd(<<" ">>, " "), BitmapEnd(<<"0", "_">>, "1"),
      BitmapEnd(<< >>, "g"), BitmapEnd(<<"_">>, "1"),
      BitmapEnd(<<"\t">>, "1"), BitmapEnd(<<"3">>, "\n"),
      BitmapEnd(<< >>, "U+0663"), BitmapEnd(<<"U+0660", "x">>, "1"),
      BitmapEnd(<<"U+0661", "x">>, "1") }

ChainedPrimaries ==
    { Bitmap(<<"8">>), Bitmap(<<"a">>), BitmapEnd(<<"B">>, "1") }

Secondaries ==
    { Bitmap(<< >>), Bitmap(<<"8">>), Bitmap(<<"C">>), BitmapEnd(<< >>, "1"),
      BitmapEnd(<<"4">>, "1"), Bitmap(<<"0", "X">>), Bitmap(<<"z">>),
      Bitmap(<<"U+0660", "x">>), BitmapEnd(<<"U+06F0", "X", "_">>, "8") }

BodyChars == {"0", "2", "a", SuperscriptTwo}

ExtraBodies == { <<"0", "a", "b">>, <<"U+0661", "a">> }

Bodies == UNION {[1..n -> BodyChars] : n \in 0..MaxBody} \cup ExtraBodies

FullMessages ==
    {Header \o p \o b : p \in PlainPrimaries \cup ChainedPrimaries, b \in Bodies}
    \cup {Header \o p \o s \o b :
            p \in ChainedPrimaries, s \in Secondaries, b \in Bodies}

\* every message and every truncation of it
Truncations ==
    UNION {{SubSeq(m, 1, n) : n \in 0..Len(m)} : m \in FullMessages}

\* well-formed bitmaps: one hexadecimal digit of any value at any position,
\* and some dense ones
HexChars == Range(LowerHex) \cup Range(UpperHex)

OneDigit(pos, d) == [i \in 1..BitmapLen |-> IF i = pos THEN d ELSE "0"]

Repeat(pair) == [i \in 1..BitmapLen |-> pair[2 - (i % 2)]]

WellFormed ==
    {OneDigit(pos, d) : pos \in 1..BitmapLen, d \in HexChars}
    \cup {Repeat(<<"f", "f">>), Repeat(<<"F", "F">>), Repeat(<<"a", "5">>),
          Repeat(<<"5", "A">>), LowerHex,
          [i \in 1..BitmapLen |-> UpperHex[BitmapLen + 1 - i]]}

\* complete messages with well-formed bitmaps and no field data
BitmapMessages ==
    {Header \o p : p \in WellFormed}
    \cup {Header \o p \o s :
            p \in {q \in WellFormed : HexDigitValue(q[1]) >= 8}, s \in WellFormed}

Messages == Truncations \cup BitmapMessages

(***************************************************************************)
(* The result dictionary                                                   *)
(***************************************************************************)
NoError == [kind |-> "NoError", field |-> 0, text |-> << >>, ftype |-> "", base |-> 0]

\* f"No configuration found for Field {field_num}."
NoConfigurationError(field_num) ==
    [kind |-> "NoConfiguration", field |-> field_num, text |-> << >>,
     ftype |-> "", base |-> 0]

\* f"Invalid length indicator for Field {field_num}. Expected digits, got
\* '{len_indicator_str}'."
InvalidLengthIndicatorError(field_num, len_indicator_str) ==
    [kind |-> "InvalidLengthIndicator", field |-> field_num,
     text |-> len_indicator_str, ftype |-> "", base |-> 0]

\* f"Unknown field type '{field_type}' for Field {field_num}."
UnknownFieldTypeError(field_type, field_num) ==
    [kind |-> "UnknownFieldType", field |-> field_num, text |-> << >>,
     ftype |-> field_type, base |-> 0]

\* "MISMATCH: ... Remaining data: '{remaining_data}'"
MismatchError(remaining_data) ==
    [kind |-> "Mismatch", field |-> 0, text |-> remaining_data,
     ftype |-> "", base |-> 0]

\* "CRITICAL MISMATCH: ... System error: {e}", e being the ValueError
\* "invalid literal for int() with base {base}: '{literal}'"
CriticalMismatchError(base, literal) ==
    [kind |-> "CriticalMismatch", field |-> 0, text |-> literal,
     ftype |-> "", base |-> base]

\* OrderedDict(): keys is the set of keys present
EmptyDict ==
    [keys |-> {}, iso_identifier |-> << >>, proprietary_header |-> << >>,
     mti |-> << >>, primary_hex |-> << >>, secondary_hex |-> << >>,
     active_fields |-> << >>, fields |-> << >>, parsing_error |-> NoError]

RECURSIVE RemoveFirst(_, _)
\* list.remove(x)
RemoveFirst(s, x) ==
    IF s = << >> THEN << >>
    ELSE IF s[1] = x THEN Tail(s) ELSE <<s[1]>> \o RemoveFirst(Tail(s), x)

\* sorted(list)
sorted(s) == SortSeq(s, LAMBDA a, b : a < b)

\* the secondary fields re-mapped one too far
RemapOffByOne(secondary_fields) ==
    [i \in 1..Len(secondary_fields) |-> secondary_fields[i] + SecondaryOffset + 1]

\* [field + 64 for field in secondary_fields]
Remap(secondary_fields) ==
    [i \in 1..Len(secondary_fields) |-> secondary_fields[i] + SecondaryOffset]

\* active_fields.extend(...); active_fields.remove(1)
ChainFields(fields, secondary_fields) ==
    RemoveFirst(fields \o Remap(secondary_fields), 1)

\* field_config.get("type", "FIXED")
FieldType(field_config) ==
    IF "type" \in DOMAIN field_config THEN field_config.type ELSE "FIXED"

\* parsed_data['fields'][field_num] = {...}: replaces the entry of the key,
\* or appends a new one
PutField(fields, rec) ==
    IF \E i \in 1..Len(fields) : fields[i].field_num = rec.field_num
    THEN [i \in 1..Len(fields) |->
            IF fields[i].field_num = rec.field_num THEN rec ELSE fields[i]]
    ELSE Append(fields, rec)

FieldEntry(field_num, field_config, data) ==
    [field_num |-> field_num, description |-> field_config.description,
     length |-> Len(data), value |-> data]

\* the check with <= for <
TrailingCheckInclusive(pd, message, pos) ==
    IF pos <= Len(message)
    THEN [pd EXCEPT !.parsing_error = MismatchError(PySliceFrom(message, pos)),
                    !.keys = @ \cup {"parsing_error"}]
    ELSE pd

\* the check after the loop: the result with the MISMATCH error when data
\* remains after the cursor
TrailingCheck(pd, message, pos) ==
    IF pos < Len(message)
    THEN [pd EXCEPT !.parsing_error = MismatchError(PySliceFrom(message, pos)),
                    !.keys = @ \cup {"parsing_error"}]
    ELSE pd

(***************************************************************************)
(* ISO8583Parser.parse as a state machine                                  *)
(***************************************************************************)
VARIABLES config, iso_message, pc, current_pos, parsed_data, active_fields,
          field_idx, result

vars == <<config, iso_message, pc, current_pos, parsed_data, active_fields,
          field_idx, result>>

Init ==
    /\ \E i \in 1..Len(Configs) : config = Configs[i]
    /\ iso_message \in Messages
    /\ pc = "start"
    /\ current_pos = 0
    /\ parsed_data = EmptyDict
    /\ active_fields = << >>
    /\ field_idx = 0
    /\ result = EmptyDict

\* an except clause that reports the error in a fresh dictionary
RaiseFresh(base, literal) ==
    /\ parsed_data' = [EmptyDict EXCEPT
                         !.parsing_error = CriticalMismatchError(base, literal),
                         !.keys = {"parsing_error"}]
    /\ pc' = "return"

\* the except clause: record the CRITICAL MISMATCH and fall to the return
Raise(base, literal) ==
    /\ parsed_data' = [parsed_data EXCEPT
                         !.parsing_error = CriticalMismatchError(base, literal),
                         !.keys = @ \cup {"parsing_error"}]
    /\ pc' = "return"

\* an error recorded inside the loop, followed by "return parsed_data"
ReturnError(err) ==
    /\ parsed_data' = [parsed_data EXCEPT !.parsing_error = err,
                                          !.keys = @ \cup {"parsing_error"}]
    /\ pc' = "return"

\* if not self.config: return {}
ParseNoConfig ==
    /\ pc = "start"
    /\ DOMAIN config = {}
    /\ result' = EmptyDict
    /\ pc' = "done"
    /\ UNCHANGED <<config, iso_message, current_pos, parsed_data,
                   active_fields, field_idx>>

\* the identifier, the proprietary header and the MTI
ParseHeader ==
    /\ pc = "start"
    /\ DOMAIN config # {}
    /\ parsed_data' =
         [parsed_data EXCEPT
            !.iso_identifier = PySlice(iso_message, 0, IdLen),
            !.proprietary_header = PySlice(iso_message, IdLen, IdLen + HdrLen),
            !.mti = PySlice(iso_message, IdLen + HdrLen, IdLen + HdrLen + MtiLen),
            !.keys = @ \cup {"iso_identifier", "proprietary_header", "mti"}]
    /\ current_pos' = IdLen + HdrLen + MtiLen
    /\ pc' = "primary"
    /\ UNCHANGED <<config, iso_message, active_fields, field_idx, result>>

\* the primary bitmap, decoded
ParsePrimaryBitmap ==
    /\ pc = "primary"
    /\ LET primary_bitmap_hex ==
               PySlice(iso_message, current_pos, current_pos + BitmapLen)
       IN  /\ current_pos' = current_pos + BitmapLen
           /\ IF HexToBinaryRaises(primary_bitmap_hex)
              THEN /\ Raise(HexBase, primary_bitmap_hex)
                   /\ UNCHANGED active_fields
              ELSE /\ active_fields' = _get_active_fields(primary_bitmap_hex)
                   /\ parsed_data' = [parsed_data EXCEPT
                                        !.primary_hex = primary_bitmap_hex,
                                        !.keys = @ \cup {"bitmap"}]
                   /\ pc' = "secondary"
    /\ UNCHANGED <<config, iso_message, field_idx, result>>

\* field 1 active: the secondary bitmap, decoded, and the combined list
ParseSecondaryBitmap ==
    /\ pc = "secondary"
    /\ 1 \in Range(active_fields)
    /\ LET secondary_bitmap_hex ==
               PySlice(iso_message, current_pos, current_pos + BitmapLen)
       IN  /\ current_pos' = current_pos + BitmapLen
           /\ IF HexToBinaryRaises(secondary_bitmap_hex)
              THEN /\ Raise(HexBase, secondary_bitmap_hex)
                   /\ UNCHANGED <<active_fields, field_idx>>
              ELSE LET combined ==
                           ChainFields(active_fields,
                                       _get_active_fields(secondary_bitmap_hex))
                   IN  /\ active_fields' = combined
                       /\ parsed_data' =
                            [parsed_data EXCEPT
                               !.secondary_hex = secondary_bitmap_hex,
                               !.active_fields = sorted(combined),
                               !.fields = << >>,
                               !.keys = @ \cup {"bitmap.secondary_hex",
                                                "active_fields", "fields"}]
                       /\ field_idx' = 1
                       /\ pc' = "fields"
    /\ UNCHANGED <<config, iso_message, result>>

\* field 1 not active: no secondary bitmap
NoSecondaryBitmap ==
    /\ pc = "secondary"
    /\ 1 \notin Range(active_fields)
    /\ parsed_data' = [parsed_data EXCEPT
                         !.active_fields = sorted(active_fields),
                         !.fields = << >>,
                         !.keys = @ \cup {"active_fields", "fields"}]
    /\ field_idx' = 1
    /\ pc' = "fields"
    /\ UNCHANGED <<config, iso_message, current_pos, active_fields, result>>

\* the fields the loop iterates over, and the one it is at
LoopFields == sorted(active_fields)

field_num == LoopFields[field_idx]

\* str(field_num)
field_key == ToString(field_num)

InLoop == pc = "fields" /\ field_idx <= Len(LoopFields)

\* no configuration for the field: error and return
FieldNoConfig ==
    /\ InLoop
    /\ field_key \notin DOMAIN config
    /\ ReturnError(NoConfigurationError(field_num))
    /\ UNCHANGED <<config, iso_message, current_pos, active_fields,
                   field_idx, result>>

\* a FIXED field: the slice of "length" characters at the cursor
FieldFixed ==
    /\ InLoop
    /\ field_key \in DOMAIN config
    /\ FieldType(config[field_key]) = "FIXED"
    /\ LET field_config == config[field_key]
           length == field_config.length
           data == PySlice(iso_message, current_pos, current_pos + length)
       IN  /\ current_pos' = current_pos + length
           /\ parsed_data' =
                [parsed_data EXCEPT
                   !.fields = PutField(@, FieldEntry(field_num, field_config, data))]
    /\ field_idx' = field_idx + 1
    /\ UNCHANGED <<config, iso_message, pc, active_fields, result>>

\* a VARIABLE field: the length indicator, then that many characters
FieldVariable ==
    /\ InLoop
    /\ field_key \in DOMAIN config
    /\ FieldType(config[field_key]) = "VARIABLE"
    /\ LET field_config == config[field_key]
           len_digits == field_config.length_digits
           len_indicator_str ==
               PySlice(iso_message, current_pos, current_pos + len_digits)
           n == PyIntDec(len_indicator_str)
           data == PySlice(iso_message, current_pos + len_digits,
                           current_pos + len_digits + n.val)
       IN  /\ isdigit(len_indicator_str)
           /\ n.ok
           /\ current_pos' = current_pos + len_digits + n.val
           /\ parsed_data' =
                [parsed_data EXCEPT
                   !.fields = PutField(@, FieldEntry(field_num, field_config, data))]
    /\ field_idx' = field_idx + 1
    /\ UNCHANGED <<config, iso_message, pc, active_fields, result>>

\* a VARIABLE field whose length indicator is not all digits
FieldInvalidIndicator ==
    /\ InLoop
    /\ field_key \in DOMAIN config
    /\ FieldType(config[field_key]) = "VARIABLE"
    /\ LET len_indicator_str ==
               PySlice(iso_message, current_pos,
                       current_pos + config[field_key].length_digits)
       IN  /\ ~isdigit(len_indicator_str)
           /\ ReturnError(InvalidLengthIndicatorError(field_num, len_indicator_str))
    /\ UNCHANGED <<config, iso_message, current_pos, active_fields,
                   field_idx, result>>

\* a VARIABLE field whose indicator passes isdigit() and fails int(): the
\* cursor is already past the indicator when ValueError is raised
FieldIndicatorValueError ==
    /\ InLoop
    /\ field_key \in DOMAIN config
    /\ FieldType(config[field_key]) = "VARIABLE"
    /\ LET len_digits == config[field_key].length_digits
           len_indicator_str ==
               PySlice(iso_message, current_pos, current_pos + len_digits)
       IN  /\ isdigit(len_indicator_str)
           /\ ~PyIntDec(len_indicator_str).ok
           /\ current_pos' = current_pos + len_digits
           /\ Raise(10, len_indicator_str)
    /\ UNCHANGED <<config, iso_message, active_fields, field_idx, result>>

\* a field type that is neither FIXED nor VARIABLE
FieldUnknownType ==
    /\ InLoop
    /\ field_key \in DOMAIN config
    /\ FieldType(config[field_key]) \notin {"FIXED", "VARIABLE"}
    /\ ReturnError(UnknownFieldTypeError(FieldType(config[field_key]), field_num))
    /\ UNCHANGED <<config, iso_message, current_pos, active_fields,
                   field_idx, result>>

\* the loop is over: the check for unparsed data
FinishFields ==
    /\ pc = "fields"
    /\ field_idx > Len(LoopFields)
    /\ parsed_data' = TrailingCheck(parsed_data, iso_message, current_pos)
    /\ pc' = "return"
    /\ UNCHANGED <<config, iso_message, current_pos, active_fields,
                   field_idx, result>>

\* return parsed_data
Return ==
    /\ pc = "return"
    /\ result' = parsed_data
    /\ pc' = "done"
    /\ UNCHANGED <<config, iso_message, current_pos, parsed_data,
                   active_fields, field_idx>>

Next ==
    \/ ParseNoConfig
    \/ ParseHeader
    \/ ParsePrimaryBitmap
    \/ ParseSecondaryBitmap
    \/ NoSecondaryBitmap
    \/ FieldNoConfig
    \/ FieldFixed
    \/ FieldVariable
    \/ FieldInvalidIndicator
    \/ FieldIndicatorValueError
    \/ FieldUnknownType
    \/ FinishFields
    \/ Return

Spec == Init /\ [][Next]_vars

TypeOK ==
    /\ pc \in {"start", "primary", "secondary", "fields", "return", "done"}
    /\ current_pos \in Nat

(***************************************************************************)
(* Properties                                                              *)
(***************************************************************************)
\* the characters of the message from offset lo up to offset hi, as far as
\* the message goes
Between(lo, hi) ==
    IF lo >= Len(iso_message) THEN << >>
    ELSE SubSeq(iso_message, lo + 1, IF hi <= Len(iso_message) THEN hi ELSE Len(iso_message))

BitmapStart == IdLen + HdrLen + MtiLen

IsHex16(h) == Len(h) = BitmapLen /\ \A i \in 1..Len(h) : IsHexDigit(h[i])

Pow2(k) == IF k = 0 THEN 1 ELSE IF k = 1 THEN 2 ELSE IF k = 2 THEN 4 ELSE 8

\* bit i (0-based, most significant first) of a 16-hex-digit bitmap
BitSet(h, i) == (HexDigitValue(h[(i \div 4) + 1]) \div Pow2(3 - (i % 4))) % 2 = 1

NibblePop == <<0, 1, 1, 2, 1, 2, 2, 3, 1, 2, 2, 3, 2, 3, 3, 4>>

RECURSIVE PopCount(_)
PopCount(h) ==
    IF h = << >> THEN 0 ELSE NibblePop[HexDigitValue(h[1]) + 1] + PopCount(Tail(h))

StrictlyAscending(s) == \A i \in 1..(Len(s) - 1) : s[i] < s[i + 1]

HasError(pd) == pd.parsing_error.kind # "NoError"

\* C5: for a bitmap of 16 hexadecimal digits the decode is strictly
\* ascending, within 1..64, holds field i+1 exactly when bit i is set, and is
\* as long as the popcount; 8000000000000000 gives <<1>> and
\* 0000000000000000 gives the empty list
C5_BitmapDecode ==
    (pc = "secondary" /\ IsHex16(Between(BitmapStart, BitmapStart + BitmapLen)))
    => LET h == Between(BitmapStart, BitmapStart + BitmapLen)
           a == active_fields
       IN  /\ parsed_data.primary_hex = h
           /\ StrictlyAscending(a)
           /\ Range(a) \subseteq 1..BitmapBits
           /\ \A i \in 0..(BitmapBits - 1) : (i + 1 \in Range(a)) <=> BitSet(h, i)
           /\ Len(a) = PopCount(h)
           /\ (h = Bitmap(<<"8">>) => a = <<1>>)
           /\ (h = Bitmap(<< >>) => a = << >>)

C5_Witness ==
    /\ pc = "secondary"
    /\ parsed_data.primary_hex = Bitmap(<<"8">>)
    /\ active_fields = <<1>>

\* C6: with well-formed bitmaps, field 1 in the primary bitmap makes parse
\* consume the next 16 characters as the secondary bitmap (32 characters in
\* all) and the active list is the ascending union of the primary fields
\* 2..64 and field j+65 for each set bit j of the secondary; without field 1
\* the cursor advances by 16 and no field is above 64
C6_Chaining ==
    LET p == Between(BitmapStart, BitmapStart + BitmapLen)
        s == Between(BitmapStart + BitmapLen, BitmapStart + 2 * BitmapLen)
        af == parsed_data.active_fields
    IN  (pc = "fields" /\ field_idx = 1 /\ IsHex16(p) /\ (BitSet(p, 0) => IsHex16(s)))
        => /\ "active_fields" \in parsed_data.keys
           /\ LoopFields = af
           /\ StrictlyAscending(af)
           /\ \A f \in 2..BitmapBits : (f \in Range(af)) <=> BitSet(p, f - 1)
           /\ 1 \notin Range(af)
           /\ IF BitSet(p, 0)
              THEN /\ "bitmap.secondary_hex" \in parsed_data.keys
                   /\ parsed_data.secondary_hex = s
                   /\ current_pos = BitmapStart + 2 * BitmapLen
                   /\ Range(af) \subseteq 2..(2 * BitmapBits)
                   /\ \A j \in 0..(BitmapBits - 1) :
                        (j + 65 \in Range(af)) <=> BitSet(s, j)
              ELSE /\ "bitmap.secondary_hex" \notin parsed_data.keys
                   /\ current_pos = BitmapStart + BitmapLen
                   /\ Range(af) \subseteq 2..BitmapBits

C6_Witness ==
    /\ pc = "fields"
    /\ field_idx = 1
    /\ "bitmap.secondary_hex" \in parsed_data.keys
    /\ parsed_data.active_fields = <<3, 66, 128>>
    /\ current_pos = BitmapStart + 2 * BitmapLen

\* the records of the result cover every active field
Covered(r) ==
    /\ "fields" \in r.keys
    /\ {r.fields[i].field_num : i \in 1..Len(r.fields)} = Range(r.active_fields)

\* C3: when every active field has a record, the MISMATCH error is recorded
\* exactly when the final cursor is before the end of the message, its
\* remainder is the message from the cursor on, and no other error appears
C3_TrailingData ==
    (pc = "done" /\ Covered(result))
    => LET e == result.parsing_error
       IN  /\ e.kind \in {"NoError", "Mismatch"}
           /\ (e.kind = "Mismatch") <=> (current_pos < Len(iso_message))
           /\ ("parsing_error" \in result.keys) <=> (e.kind = "Mismatch")
           /\ e.kind = "Mismatch"
                => e.text = SubSeq(iso_message, current_pos + 1, Len(iso_message))

C3_Witness ==
    /\ pc = "done"
    /\ Len(result.fields) = 2
    /\ Covered(result)
    /\ result.parsing_error.kind = "Mismatch"
    /\ Len(result.parsing_error.text) = 1

\* C4: the step that records an error adds no record and, for a missing
\* configuration or an invalid length indicator, leaves the cursor; after
\* it the dictionary and the cursor never change and the dictionary is what
\* parse returns
C4_FirstErrorWins ==
    [][/\ HasError(parsed_data)
          => /\ parsed_data' = parsed_data
             /\ current_pos' = current_pos
             /\ pc' = "done"
             /\ result' = parsed_data
       /\ (~HasError(parsed_data) /\ HasError(parsed_data'))
          => /\ parsed_data'.fields = parsed_data.fields
             /\ parsed_data'.active_fields = parsed_data.active_fields
             /\ pc' = "return"
             /\ parsed_data'.parsing_error.kind
                    \in {"NoConfiguration", "InvalidLengthIndicator"}
                  => current_pos' = current_pos]_vars

C4_Witness ==
    /\ pc = "done"
    /\ result.parsing_error.kind = "CriticalMismatch"
    /\ Len(result.fields) = 1
    /\ result = parsed_data

\* the record's field is a VARIABLE field of the configuration
IsVariableRecord(rec) ==
    FieldType(config[ToString(rec.field_num)]) = "VARIABLE"

RECURSIVE Values(_)
Values(fs) == IF fs = << >> THEN << >> ELSE fs[1].value \o Values(Tail(fs))

\* the header slices, the bitmaps and the values in ascending field order
Concatenation(r) ==
    r.iso_identifier \o r.proprietary_header \o r.mti \o r.primary_hex
      \o (IF "bitmap.secondary_hex" \in r.keys THEN r.secondary_hex ELSE << >>)
      \o Values(SortSeq(r.fields, LAMBDA x, y : x.field_num < y.field_num))

Parsed(r) == pc = "done" /\ r.keys # {} /\ "parsing_error" \notin r.keys

\* C2 as stated: a message parsed without error is the concatenation of the
\* header slices, the bitmaps and the recorded values
C2_RoundTrip == Parsed(result) => Concatenation(result) = iso_message

\* C2 amended: a message parsed without error is that concatenation exactly
\* when none of its records belongs to a VARIABLE field (the length
\* indicator of a VARIABLE field is in no record)
C2_RoundTripFixed ==
    Parsed(result)
    => ((Concatenation(result) = iso_message)
          <=> (\A i \in 1..Len(result.fields) : ~IsVariableRecord(result.fields[i])))

C2_Witness ==
    /\ Parsed(result)
    /\ Len(result.fields) = 2
    /\ \A i \in 1..2 : ~IsVariableRecord(result.fields[i])
    /\ Concatenation(result) = iso_message

\* the step at the cursor needs more characters than remain
ShortRead ==
    /\ InLoop
    /\ field_key \in DOMAIN config
    /\ LET c == config[field_key]
       IN  \/ /\ FieldType(c) = "FIXED"
              /\ current_pos + c.length > Len(iso_message)
           \/ /\ FieldType(c) = "VARIABLE"
              /\ current_pos + c.length_digits > Len(iso_message)
           \/ /\ FieldType(c) = "VARIABLE"
              /\ current_pos + c.length_digits <= Len(iso_message)
              /\ LET n == PyIntDec(Between(current_pos, current_pos + c.length_digits))
                 IN  n.ok /\ current_pos + c.length_digits + n.val > Len(iso_message)

\* C1: a consumption step that needs more characters than remain records
\* the CRITICAL MISMATCH (underflow) error, adds no record and ends the parse
C1_BufferUnderflow ==
    [][ShortRead
        => /\ parsed_data'.parsing_error.kind = "CriticalMismatch"
           /\ parsed_data'.fields = parsed_data.fields
           /\ pc' = "return"]_vars

\* C7: a 16-character bitmap that is not 16 hexadecimal digits ends the
\* parse with the decode error and no active-field list
C7_InvalidHexRejected ==
    LET p == Between(BitmapStart, BitmapStart + BitmapLen)
        s == Between(BitmapStart + BitmapLen, BitmapStart + 2 * BitmapLen)
    IN  (/\ pc = "done"
         /\ DOMAIN config # {}
         /\ Len(p) = BitmapLen
         /\ \/ ~IsHex16(p)
            \/ IsHex16(p) /\ BitSet(p, 0) /\ Len(s) = BitmapLen /\ ~IsHex16(s))
        => /\ result.parsing_error.kind = "CriticalMismatch"
           /\ "active_fields" \notin result.keys

\* C8: a message too short for the header, the primary bitmap or the
\* secondary bitmap that field 1 announces ends the parse with the underflow
\* error and no active-field list
C8_ShortHeader ==
    LET p == Between(BitmapStart, BitmapStart + BitmapLen)
    IN  (/\ pc = "done"
         /\ DOMAIN config # {}
         /\ \/ Len(iso_message) < BitmapStart + BitmapLen
            \/ /\ IsHex16(p)
               /\ BitSet(p, 0)
               /\ Len(iso_message) < BitmapStart + 2 * BitmapLen)
        => /\ result.parsing_error.kind = "CriticalMismatch"
           /\ "active_fields" \notin result.keys

\* C9: a step that records a FIXED field advances the cursor by the
\* configured length and records the characters between the two cursors,
\* whose number, like the record's length, is the configured length
C9_FixedCursor ==
    [][(/\ InLoop
        /\ field_key \in DOMAIN config
        /\ FieldType(config[field_key]) = "FIXED"
        /\ Len(parsed_data'.fields) = Len(parsed_data.fields) + 1)
       => LET fixed_length == config[field_key].length
              rec == parsed_data'.fields[Len(parsed_data'.fields)]
          IN  /\ current_pos' = current_pos + fixed_length
              /\ rec.field_num = field_num
              /\ rec.value = Between(current_pos, current_pos')
              /\ Len(rec.value) = fixed_length
              /\ rec.length = fixed_length]_vars

\* C10: at a VARIABLE field a record is produced only if the indicator is
\* length_digit_count decimal digits; a complete indicator that is not all
\* decimal digits gives InvalidLengthIndicator with the field and the
\* indicator, the cursor and the records unchanged; a short buffer at the
\* indicator gives the underflow error
C10_LengthIndicator ==
    [][(/\ InLoop
        /\ field_key \in DOMAIN config
        /\ FieldType(config[field_key]) = "VARIABLE")
       => LET len_digits == config[field_key].length_digits
              ind == Between(current_pos, current_pos + len_digits)
              decimal == \A i \in 1..Len(ind) : ind[i] \in AsciiDigits
          IN  /\ Len(parsed_data'.fields) > Len(parsed_data.fields)
                   => (Len(ind) = len_digits /\ decimal)
              /\ (Len(ind) = len_digits /\ ~decimal)
                   => /\ parsed_data'.parsing_error
                           = InvalidLengthIndicatorError(field_num, ind)
                      /\ current_pos' = current_pos
                      /\ parsed_data'.fields = parsed_data.fields
              /\ Len(ind) < len_digits
                   => parsed_data'.parsing_error.kind = "CriticalMismatch"]_vars

====
